---- MODULE Spec2Model ----
(***************************************************************************)
(* Model of the kubevirt pieces of the installer:                          *)
(*   - validation.ValidateMachinePool  (pkg/types/kubevirt/validation)     *)
(*   - the infra-cluster client wrapper (LoadKubeConfigContent,            *)
(*     Delete*/List* and their helpers deleteResource, getResource,        *)
(*     listResource)                                                       *)
(* Strings that are parsed (quantities) are sequences of one-character     *)
(* strings; all other strings are TLA+ strings.                            *)
(***************************************************************************)
EXTENDS Integers, Sequences, FiniteSets, TLC

VARIABLES
    kubeConfigDefaultFilename, \* package variable, set when the package is initialised
    home,                      \* value of $HOME in the process environment
    pc,                        \* position of the one (synchronous) caller
    op,                        \* exported operation being executed
    args,                      \* its arguments (and the environment it was given)
    result,                    \* what it returned: [val, err]
    trace,                     \* calls made to the underlying libraries, in order
    counter,                   \* deleteResource's local counter
    getErr,                    \* deleteResource's local getErr
    exists                     \* state of the target resource in the infra cluster

vars == <<kubeConfigDefaultFilename, home, pc, op, args, result, trace, counter, getErr, exists>>

\* ------------------------------------------------------------------ bounds

\* longest quantity string given to ValidateMachinePool
MaxLen == 2
\* largest number of items the cluster returns from one list call
MaxItems == 2

\* ------------------------------------------------------------ value domains

Nil == "<nil>"

\* errors the dynamic client / API server can answer with
ErrNotFound == "NotFound"
ClientErrs == {"Forbidden", "ConnectionRefused"}

CPUValues == {0, 1, 2}
QuantityChars == {"-", "0", "1", "k"}
Digits == {"0", "1"}

RECURSIVE StringsUpTo(_)
StringsUpTo(n) ==
    IF n = 0 THEN {<<>>}
    ELSE LET shorter == StringsUpTo(n - 1)
         IN shorter \cup {Append(s, c) : s \in {t \in shorter : Len(t) = n - 1}, c \in QuantityChars}

QuantityStrings == StringsUpTo(MaxLen)

Namespaces == {"ns1", "ns2"}
Names == {"vm1", "vm2"}
LabelKeys == {"k1", "k2"}
LabelVals == {"v1", "v2"}
NoLabel == "-"

\* a label map is a function on LabelKeys; NoLabel marks a key that is not in the map
LabelMaps == [LabelKeys -> LabelVals \cup {NoLabel}]
HasKey(m, k) == m[k] # NoLabel
\* labels carried by the items of the cluster
ItemLabelMaps == [LabelKeys -> {"v1", NoLabel}]
Items == [name : Names, namespace : Namespaces, labels : ItemLabelMaps]

RECURSIVE SeqsUpTo(_, _)
SeqsUpTo(S, n) ==
    IF n = 0 THEN {<<>>}
    ELSE LET shorter == SeqsUpTo(S, n - 1)
         IN shorter \cup {Append(s, x) : s \in {t \in shorter : Len(t) = n - 1}, x \in S}

Inventories == SeqsUpTo(Items, MaxItems)

HomeValues == {"", "/output"}
KubeConfigValues == {"", "/tmp/kubeconfig", "/output/.kube/config"}
FileOutcomes == {[val |-> "cfgA", err |-> Nil], [val |-> "cfgB", err |-> Nil],
                 [val |-> "", err |-> "ENOENT"]}

NoResult == [val |-> <<>>, err |-> Nil]
NoArgs == [none |-> TRUE]

\* ------------------------------------------------ validation/machinepool.go

RECURSIVE LeadingDigits(_)
LeadingDigits(s) ==
    IF s = <<>> \/ Head(s) \notin Digits THEN 0 ELSE 1 + LeadingDigits(Tail(s))

RECURSIVE DigitsValue(_)
DigitsValue(s) ==
    IF s = <<>> THEN 0
    ELSE 10 * DigitsValue(SubSeq(s, 1, Len(s) - 1)) + (IF s[Len(s)] = "1" THEN 1 ELSE 0)

\* resource.ParseQuantity on the alphabet QuantityChars: an optional sign, at
\* least one digit, and a suffix that is empty or the decimal SI suffix k.
ParseQuantity(s) ==
    LET neg    == s # <<>> /\ Head(s) = "-"
        body   == IF neg THEN Tail(s) ELSE s
        nd     == LeadingDigits(body)
        suffix == SubSeq(body, nd + 1, Len(body))
    IN IF nd = 0 \/ suffix \notin {<<>>, <<"k">>}
       THEN [err |-> TRUE, value |-> 0]
       ELSE [err |-> FALSE,
             value |-> (IF neg THEN -1 ELSE 1) * DigitsValue(SubSeq(body, 1, nd))
                       * (IF suffix = <<"k">> THEN 1000 ELSE 1)]

\* Quantity.Sign
Sign(v) == IF v > 0 THEN 1 ELSE IF v < 0 THEN -1 ELSE 0

\* field.Invalid(fldPath.Child(f), value, detail)
Invalid(f, detail) == [field |-> f, detail |-> detail]

CpuErrs(p) ==
    IF p.CPU <= 0 THEN <<Invalid("cpu", "CPU must be positive")>> ELSE <<>>

StorageErrsZeroOk(p) ==
    LET q == ParseQuantity(p.StorageSize)
    IN IF q.err THEN <<Invalid("storage", "Storage size must be of Quantity type format")>>
       ELSE IF Sign(q.value) = -1 THEN <<Invalid("storage", "Storage size must be positive value")>>
       ELSE <<>>

StorageErrs(p) ==
    LET q == ParseQuantity(p.StorageSize)
    IN IF q.err THEN <<Invalid("storage", "Storage size must be of Quantity type format")>>
       ELSE IF Sign(q.value) # 1 THEN <<Invalid("storage", "Storage size must be positive value")>>
       ELSE <<>>

MemoryErrs(p) ==
    LET q == ParseQuantity(p.Memory)
    IN IF q.err THEN <<Invalid("memory", "Memory must be of Quantity type format")>>
       ELSE IF Sign(q.value) # 1 THEN <<Invalid("memory", "Memory must be positive value")>>
       ELSE <<>>

ValidateMachinePoolFailFast(p) ==
    IF CpuErrs(p) # <<>> THEN CpuErrs(p)
    ELSE IF StorageErrs(p) # <<>> THEN StorageErrs(p)
    ELSE MemoryErrs(p)

\* allErrs after the three appends
ValidateMachinePool(p) == CpuErrs(p) \o StorageErrs(p) \o MemoryErrs(p)

MachinePools == [CPU : CPUValues, StorageSize : QuantityStrings, Memory : QuantityStrings]

\* ------------------------------------------------- LoadKubeConfigContent

\* filepath.Join of a directory and two plain names: empty elements are dropped
JoinHome(dir) == IF dir = "" THEN ".kube/config" ELSE dir \o "/.kube/config"

KubeConfigPaths == (KubeConfigValues \ {""}) \cup {JoinHome(h) : h \in HomeValues}

KubeConfigFilenameAlwaysDefault(envValue, default) == default

\* lines 322-326: the file LoadKubeConfigContent reads
KubeConfigFilename(envValue, default) ==
    IF envValue = "" THEN default ELSE envValue

\* ------------------------------------------------------------------ Init

Init ==
    /\ home \in HomeValues
    /\ kubeConfigDefaultFilename = JoinHome(home)
    /\ pc = "idle"
    /\ op = "none"
    /\ args = NoArgs
    /\ result = NoResult
    /\ trace = <<>>
    /\ counter = 0
    /\ getErr = Nil
    /\ exists = "absent"

Call(c, a, e) == [call |-> c, arg |-> a, err |-> e]

\* ValidateMachinePool(p, fldPath)
CallValidateMachinePool ==
    /\ pc = "idle"
    /\ \E p \in MachinePools :
        /\ op' = "ValidateMachinePool"
        /\ args' = p
        /\ result' = [val |-> ValidateMachinePool(p), err |-> Nil]
    /\ pc' = "done"
    /\ UNCHANGED <<kubeConfigDefaultFilename, home, trace, counter, getErr, exists>>

\* LoadKubeConfigContent(): the environment and the files are inputs
LoadKubeConfigContent ==
    /\ pc = "idle"
    /\ \E env \in KubeConfigValues, fs \in [KubeConfigPaths -> FileOutcomes] :
        LET kubeConfigFilename == KubeConfigFilename(env, kubeConfigDefaultFilename)
        IN /\ op' = "LoadKubeConfigContent"
           /\ args' = [env |-> env, fs |-> fs]
           /\ trace' = <<Call("ReadFile", kubeConfigFilename, fs[kubeConfigFilename].err)>>
           /\ result' = fs[kubeConfigFilename]
    /\ pc' = "done"
    /\ UNCHANGED <<kubeConfigDefaultFilename, home, counter, getErr, exists>>

\* ------------------------------------------------- the dynamic client (API server)

\* answers of Delete(name) for a resource in state e
DeleteAnswers(e) == (IF e = "absent" THEN {ErrNotFound} ELSE {Nil}) \cup ClientErrs

\* answers of Get(name) for a resource in state e: a resource being finalized is still served
GetAnswers(e) == (IF e = "absent" THEN {ErrNotFound} ELSE {Nil}) \cup ClientErrs

\* Resource(r).Namespace(ns).List: the items of the namespace, all of them for ns = ""
ListAnswer(ns, inventory) ==
    SelectSeq(inventory, LAMBDA d : ns = "" \/ d.namespace = ns)

\* ------------------------------------------------------------ deleteResource

\* line 441: the loop gives up when counter reaches this
MaxChecks == 5

\* line 442
TimeoutErr(name) ==
    "Failed to delete resource " \o name \o ", checked 5 times and the vm stil exists"

AfterDeleteIgnoreErr(err, wait) ==
    IF ~wait THEN "return" ELSE "wait"

AfterDeleteAlwaysWait(err, wait) ==
    IF err # Nil THEN "return" ELSE "wait"

\* lines 431-436: what follows the delete call
AfterDelete(err, wait) ==
    IF err # Nil THEN "return"
    ELSE IF ~wait THEN "return"
    ELSE "wait"

LoopStepNoBudget(gerr, cnt) ==
    IF gerr # Nil THEN "exit" ELSE "body"

LoopStepEarly(gerr, cnt) ==
    IF gerr # Nil THEN "exit"
    ELSE IF cnt = MaxChecks - 1 THEN "giveup"
    ELSE "body"

LoopStepNoExit(gerr, cnt) ==
    IF cnt = MaxChecks THEN (IF gerr # Nil THEN "exit" ELSE "giveup")
    ELSE "body"

\* lines 440-443: the loop condition, then the first statement of the body
LoopStep(gerr, cnt) ==
    IF gerr # Nil THEN "exit"
    ELSE IF cnt = MaxChecks THEN "giveup"
    ELSE "body"

\* deleteResource(namespace, name, resource, wait) is entered
deleteResourceEnter(o, resource) ==
    /\ pc = "idle"
    /\ \E ns \in Namespaces, name \in Names, wait \in BOOLEAN :
        args' = [namespace |-> ns, name |-> name, resource |-> resource, wait |-> wait]
    /\ exists' \in {"present", "absent"}
    /\ op' = o
    /\ pc' = "delete"
    /\ UNCHANGED <<kubeConfigDefaultFilename, home, result, trace, counter, getErr>>

DeleteVirtualMachine == deleteResourceEnter("DeleteVirtualMachine", "virtualmachines")
DeleteDataVolume == deleteResourceEnter("DeleteDataVolume", "datavolumes")
DeleteSecret == deleteResourceEnter("DeleteSecret", "secrets")

\* lines 431-439: the delete call and the two early returns
deleteCall ==
    /\ pc = "delete"
    /\ \E err \in DeleteAnswers(exists) :
        /\ trace' = Append(trace, Call("Delete", args.name, err))
        /\ IF err = Nil THEN exists' \in {"terminating", "absent"} ELSE exists' = exists
        /\ IF AfterDelete(err, args.wait) = "return"
           THEN /\ result' = [val |-> <<>>, err |-> err]
                /\ pc' = "done"
           ELSE /\ result' = result
                /\ pc' = "loop"
    /\ counter' = 0
    /\ getErr' = Nil
    /\ UNCHANGED <<kubeConfigDefaultFilename, home, op, args>>

\* lines 440-443 and 447: loop condition, budget check, return after the loop
loopTest ==
    /\ pc = "loop"
    /\ LET s == LoopStep(getErr, counter)
       IN /\ pc' = IF s = "body" THEN "sleep" ELSE "done"
          /\ result' = IF s = "giveup" THEN [val |-> <<>>, err |-> TimeoutErr(args.name)]
                       ELSE IF s = "exit" THEN [val |-> <<>>, err |-> Nil]
                       ELSE result
    /\ UNCHANGED <<kubeConfigDefaultFilename, home, op, args, trace, counter, getErr, exists>>

sleepSkipFirst ==
    /\ pc = "sleep"
    /\ trace' = IF counter = 0 THEN trace ELSE Append(trace, Call("Sleep", "1s", Nil))
    /\ counter' = counter + 1
    /\ pc' = "get"
    /\ UNCHANGED <<kubeConfigDefaultFilename, home, op, args, result, getErr, exists>>

\* lines 444-445: time.Sleep(1 * time.Second); counter++
sleep ==
    /\ pc = "sleep"
    /\ trace' = Append(trace, Call("Sleep", "1s", Nil))
    /\ counter' = counter + 1
    /\ pc' = "get"
    /\ UNCHANGED <<kubeConfigDefaultFilename, home, op, args, result, getErr, exists>>

\* line 440 (post statement) and getResource: _, getErr = c.getResource(...)
getResource ==
    /\ pc = "get"
    /\ \E err \in GetAnswers(exists) :
        /\ getErr' = err
        /\ trace' = Append(trace, Call("Get", args.name, err))
    /\ pc' = "loop"
    /\ UNCHANGED <<kubeConfigDefaultFilename, home, op, args, result, counter, exists>>

\* the infra cluster finishes the deletion it accepted
ClusterRemoves ==
    /\ pc \in {"loop", "sleep", "get"}
    /\ exists = "terminating"
    /\ exists' = "absent"
    /\ UNCHANGED <<kubeConfigDefaultFilename, home, pc, op, args, result, trace, counter, getErr>>

\* -------------------------------------------------------------- listResource

RequiredKeys(requiredLabels) == {k \in LabelKeys : HasKey(requiredLabels, k)}

RECURSIVE LabelLoopNoBreak(_, _, _)
LabelLoopNoBreak(d, requiredLabels, keys) ==
    IF keys = {} THEN <<>>
    ELSE LET k == CHOOSE x \in keys : TRUE
         IN (IF HasKey(d.labels, k) /\ d.labels[k] = requiredLabels[k] THEN <<d.name>> ELSE <<>>)
                \o LabelLoopNoBreak(d, requiredLabels, keys \ {k})

\* lines 465-470: range over requiredLabels (in any order), append and break on the first match
RECURSIVE LabelLoop(_, _, _)
LabelLoop(d, requiredLabels, keys) ==
    IF keys = {} THEN <<>>
    ELSE LET k == CHOOSE x \in keys : TRUE
         IN IF HasKey(d.labels, k) /\ d.labels[k] = requiredLabels[k]
            THEN <<d.name>>
            ELSE LabelLoop(d, requiredLabels, keys \ {k})

\* lines 460-471: the loop over list.Items
RECURSIVE ItemLoop(_, _, _)
ItemLoop(items, namespace, requiredLabels) ==
    IF items = <<>> THEN <<>>
    ELSE LET d == Head(items)
             rest == ItemLoop(Tail(items), namespace, requiredLabels)
         IN IF d.namespace # namespace THEN rest
            ELSE LabelLoop(d, requiredLabels, RequiredKeys(requiredLabels)) \o rest

\* lines 454-473: answer is what the list call returned
listResource(namespace, requiredLabels, answer) ==
    IF answer.err # Nil THEN [val |-> <<>>, err |-> answer.err]
    ELSE [val |-> ItemLoop(answer.items, namespace, requiredLabels), err |-> Nil]

ListAnswers(ns) ==
    {[items |-> <<>>, err |-> e] : e \in ClientErrs}
        \cup {[items |-> ListAnswer(ns, inv), err |-> Nil] : inv \in Inventories}

listResourceCall(o, resource) ==
    /\ pc = "idle"
    /\ \E ns \in Namespaces \cup {""}, requiredLabels \in LabelMaps :
        \E answer \in ListAnswers(ns) :
            /\ args' = [namespace |-> ns, requiredLabels |-> requiredLabels,
                        resource |-> resource, answer |-> answer]
            /\ trace' = <<Call("List", ns, answer.err)>>
            /\ result' = listResource(ns, requiredLabels, answer)
    /\ op' = o
    /\ pc' = "done"
    /\ UNCHANGED <<kubeConfigDefaultFilename, home, counter, getErr, exists>>

ListVirtualMachineNames == listResourceCall("ListVirtualMachineNames", "virtualmachines")
ListDataVolumeNames == listResourceCall("ListDataVolumeNames", "datavolumes")
ListSecretNames == listResourceCall("ListSecretNames", "secrets")

\* the caller takes the result; the next operation starts from a fresh frame
Return ==
    /\ pc = "done"
    /\ pc' = "idle"
    /\ op' = "none"
    /\ args' = NoArgs
    /\ result' = NoResult
    /\ trace' = <<>>
    /\ counter' = 0
    /\ getErr' = Nil
    /\ exists' = "absent"
    /\ UNCHANGED <<kubeConfigDefaultFilename, home>>

Next ==
    \/ CallValidateMachinePool
    \/ LoadKubeConfigContent
    \/ DeleteVirtualMachine
    \/ DeleteDataVolume
    \/ DeleteSecret
    \/ deleteCall
    \/ loopTest
    \/ sleep
    \/ getResource
    \/ ClusterRemoves
    \/ ListVirtualMachineNames
    \/ ListDataVolumeNames
    \/ ListSecretNames
    \/ Return

Spec == Init /\ [][Next]_vars

\* the deletion part alone, with the progress the program's own execution
\* guarantees: each underlying call returns and the caller then runs on
DeleteNext ==
    \/ DeleteVirtualMachine
    \/ DeleteDataVolume
    \/ DeleteSecret
    \/ deleteCall
    \/ loopTest
    \/ sleep
    \/ getResource
    \/ ClusterRemoves
    \/ Return

LiveSpec ==
    /\ Init
    /\ [][DeleteNext]_vars
    /\ WF_vars(deleteCall)
    /\ WF_vars(loopTest)
    /\ WF_vars(sleep)
    /\ WF_vars(getResource)

\* ------------------------------------------------------------ properties

DeleteOps == {"DeleteVirtualMachine", "DeleteDataVolume", "DeleteSecret"}
ListOps == {"ListVirtualMachineNames", "ListDataVolumeNames", "ListSecretNames"}

Done(o) == pc = "done" /\ op = o
Returned(ops) == pc = "done" /\ op \in ops

CallsOf(c) == SelectSeq(trace, LAMBDA e : e.call = c)
NumGets == Len(CallsOf("Get"))
NumSleeps == Len(CallsOf("Sleep"))
NumDeletes == Len(CallsOf("Delete"))

\* the delete call was made and succeeded
DeleteSucceeded == trace # <<>> /\ trace[1].call = "Delete" /\ trace[1].err = Nil
\* a deletion with wait=true whose delete call succeeded
Waiting == op \in DeleteOps /\ args.wait /\ DeleteSucceeded

\* the outcome of a poll, as the cluster answered it
PollOutcome(e) ==
    IF e.err = Nil THEN "present" ELSE IF e.err = ErrNotFound THEN "absent" ELSE "error"
\* index of the first poll that found the resource absent, 0 if none did
FirstAbsent ==
    LET polls == CallsOf("Get")
        hits == {i \in DOMAIN polls : PollOutcome(polls[i]) = "absent"}
    IN IF hits = {} THEN 0 ELSE CHOOSE i \in hits : \A j \in hits : i <= j
AllPresent(n) ==
    LET polls == CallsOf("Get")
    IN Len(polls) = n /\ \A i \in DOMAIN polls : PollOutcome(polls[i]) = "present"

QuantityClass(s) ==
    LET q == ParseQuantity(s)
    IN IF q.err THEN "unparseable" ELSE IF q.value > 0 THEN "positive" ELSE "nonpositive"

InvalidFields(p) ==
    (IF p.CPU > 0 THEN <<>> ELSE <<"cpu">>)
        \o (IF QuantityClass(p.StorageSize) = "positive" THEN <<>> ELSE <<"storage">>)
        \o (IF QuantityClass(p.Memory) = "positive" THEN <<>> ELSE <<"memory">>)

\* C1: ValidateMachinePool returns an empty error list exactly when CPU > 0 and
\* both StorageSize and Memory parse as quantities that are strictly positive.
C1_EmptyIffAllValid ==
    Done("ValidateMachinePool") =>
        ((result.val = <<>>) <=>
            (/\ args.CPU > 0
             /\ QuantityClass(args.StorageSize) = "positive"
             /\ QuantityClass(args.Memory) = "positive"))

C1_Witness ==
    /\ Done("ValidateMachinePool")
    /\ args.CPU > 0
    /\ args.StorageSize = <<"1", "k">>
    /\ QuantityClass(args.Memory) = "positive"
    /\ result.val = <<>>

\* C2: the errors ValidateMachinePool returns are exactly one per invalid
\* field, on that field's path, in the order cpu, storage, memory; an invalid
\* field never hides a later one and no field is reported twice.
C2_OneErrorPerInvalidField ==
    Done("ValidateMachinePool") =>
        /\ Len(result.val) = Len(InvalidFields(args))
        /\ [i \in DOMAIN result.val |-> result.val[i].field] = InvalidFields(args)

C2_Witness ==
    /\ Done("ValidateMachinePool")
    /\ args.CPU = 0
    /\ QuantityClass(args.StorageSize) = "unparseable"
    /\ QuantityClass(args.Memory) = "nonpositive"
    /\ Len(result.val) = 3

\* C3: in a deletion with wait=true whose delete call succeeded, once the k-th
\* poll is the first to find the resource absent, k is between 1 and 5, exactly
\* k gets and k sleeps have been issued, nothing follows that poll, and the
\* operation returns nil.
C3_ReturnsAtFirstAbsentPoll ==
    (Waiting /\ FirstAbsent # 0) =>
        /\ FirstAbsent \in 1..5
        /\ NumGets = FirstAbsent
        /\ NumSleeps = FirstAbsent
        /\ trace[Len(trace)].call = "Get"
        /\ pc \in {"loop", "done"}
        /\ (pc = "done" => result.err = Nil)

C3_Witness ==
    /\ Waiting
    /\ pc = "done"
    /\ FirstAbsent = 3
    /\ NumGets = 3
    /\ result.err = Nil

TimeoutErrs == {TimeoutErr(n) : n \in Names}

\* C4: a deletion with wait=true whose delete call succeeded and whose five
\* polls all found the resource present returns the error naming the resource;
\* no sixth get is ever issued; and the timeout error is returned only after
\* five polls that all found the resource present.
C4_TimeoutAfterFivePresentPolls ==
    /\ (Waiting /\ pc = "done" /\ AllPresent(5)) =>
            /\ result.err = TimeoutErr(args.name)
            /\ result.err \notin {Nil, ErrNotFound} \cup ClientErrs
    /\ (op \in DeleteOps => NumGets <= 5)
    /\ (Returned(DeleteOps) /\ result.err \in TimeoutErrs) =>
            (Waiting /\ AllPresent(5) /\ NumSleeps = 5)

C4_Witness ==
    /\ Waiting
    /\ pc = "done"
    /\ AllPresent(5)
    /\ result.err = TimeoutErr(args.name)

\* C5: every error of an underlying call (delete, list, or a poll's get that
\* failed for a reason other than the resource being absent) is what the
\* operation returns, and a deletion with wait=true returns nil only after a
\* poll that observed the resource to be absent.
C5_ErrorsPropagated ==
    Returned(DeleteOps \cup ListOps) =>
        /\ \A i \in DOMAIN trace :
              (trace[i].err # Nil /\ ~(trace[i].call = "Get" /\ trace[i].err = ErrNotFound))
                  => result.err = trace[i].err
        /\ (Waiting /\ result.err = Nil) =>
              (trace[Len(trace)].call = "Get" /\ trace[Len(trace)].err = ErrNotFound)

\* names of the listed items that are in the namespace and carry every required label
AllLabelsMatch(d, requiredLabels) ==
    \A k \in RequiredKeys(requiredLabels) :
        HasKey(d.labels, k) /\ d.labels[k] = requiredLabels[k]
SeqRange(q) == {q[i] : i \in DOMAIN q}

\* C6: when the list call succeeds, a name is in the result exactly when a
\* listed item of that name is in the requested namespace and carries every
\* key-value pair of requiredLabels.
C6_AllRequiredLabels ==
    (Returned(ListOps) /\ args.answer.err = Nil) =>
        SeqRange(result.val) =
            {d.name : d \in {x \in SeqRange(args.answer.items) :
                                x.namespace = args.namespace
                                /\ AllLabelsMatch(x, args.requiredLabels)}}

\* C7: LoadKubeConfigContent reads exactly one file, the one KUBECONFIG names
\* when it is non-empty and otherwise .kube/config under $HOME (joined as
\* filepath.Join joins: relative when HOME is empty), and returns what the
\* read returned.
C7_ReadsOneFile ==
    Done("LoadKubeConfigContent") =>
        LET default == IF home = "" THEN ".kube/config" ELSE home \o "/.kube/config"
            path == IF args.env # "" THEN args.env ELSE default
        IN /\ Len(trace) = 1
           /\ trace[1].call = "ReadFile"
           /\ trace[1].arg = path
           /\ result = args.fs[path]

C7_Witness ==
    /\ Done("LoadKubeConfigContent")
    /\ args.env = "/tmp/kubeconfig"
    /\ home = "/output"
    /\ args.fs["/tmp/kubeconfig"] # args.fs["/output/.kube/config"]
    /\ trace[1].arg = "/tmp/kubeconfig"
    /\ result = args.fs["/tmp/kubeconfig"]

\* C8: in every deletion the first underlying call is the delete call and it
\* is the only delete call; if it failed, the operation has returned that
\* error with no get and no sleep, whatever the wait flag; a get or sleep is
\* only ever issued after a delete call that succeeded.
C8_DeleteFirstAndOnce ==
    op \in DeleteOps =>
        /\ (pc # "delete") <=> (trace # <<>>)
        /\ trace # <<>> =>
              /\ trace[1].call = "Delete"
              /\ NumDeletes = 1
              /\ trace[1].err # Nil =>
                    /\ Len(trace) = 1
                    /\ pc = "done"
                    /\ result.err = trace[1].err
              /\ (NumGets > 0 \/ NumSleeps > 0) => trace[1].err = Nil

C8_Witness ==
    /\ Returned(DeleteOps)
    /\ args.wait
    /\ trace = <<Call("Delete", args.name, "Forbidden")>>
    /\ result.err = "Forbidden"

\* C9: a deletion with wait=false whose delete call succeeded has returned nil
\* with no get and no sleep.
C9_NoWaitReturnsAtOnce ==
    (op \in DeleteOps /\ ~args.wait /\ DeleteSucceeded) =>
        /\ pc = "done"
        /\ result.err = Nil
        /\ Len(trace) = 1

\* ... and it does so while the resource still exists in the cluster
C9_Witness ==
    /\ Returned(DeleteOps)
    /\ ~args.wait
    /\ DeleteSucceeded
    /\ result.err = Nil
    /\ NumGets = 0
    /\ exists = "terminating"

\* C10: a deletion with wait=true never issues more than five gets or five
\* sleeps, and it always returns, whatever the polls answer.
C10_WaitTerminates ==
    /\ [](op \in DeleteOps => (NumGets <= 5 /\ NumSleeps <= 5))
    /\ ((op \in DeleteOps /\ args.wait /\ pc # "done") ~> (pc = "done"))

C10_Witness ==
    /\ Waiting
    /\ pc = "done"
    /\ NumGets = 5
    /\ NumSleeps = 5
    /\ exists = "terminating"

\* C11: in the deletion-wait loop the calls after the delete call alternate
\* sleep, get, sleep, get, ...: every get directly follows a sleep and the
\* first call after the delete is a sleep; the gets issued equal the sleeps
\* completed, or are one less exactly between a sleep and its poll; counter
\* equals the number of sleeps and never exceeds 5.
C11_SleepBeforeEveryPoll ==
    op \in DeleteOps =>
        /\ \A i \in DOMAIN trace :
              /\ trace[i].call = "Get" => (i > 1 /\ trace[i - 1].call = "Sleep")
              /\ trace[i].call = "Sleep" => (i > 1 /\ trace[i - 1].call \in {"Delete", "Get"})
        /\ NumSleeps - NumGets \in {0, 1}
        /\ (NumSleeps = NumGets + 1) <=> (pc = "get")
        /\ counter = NumSleeps
        /\ counter <= 5

\* the resource is already gone right after the delete: one sleep is paid before the first poll
C11_Witness ==
    /\ Waiting
    /\ pc = "get"
    /\ exists = "absent"
    /\ NumSleeps = 1
    /\ NumGets = 0
    /\ counter = 1

\* some required label is carried by the item with an equal value
SomeLabelMatches(d, requiredLabels) ==
    \E k \in RequiredKeys(requiredLabels) :
        HasKey(d.labels, k) /\ d.labels[k] = requiredLabels[k]

\* C12: when the list call succeeds, the result is the names, in list order and
\* once per item, of the listed items that are in the requested namespace and
\* match at least one required label; so it is empty when requiredLabels is
\* empty and never holds an item of another namespace.
C12_OncePerItemInOrder ==
    (Returned(ListOps) /\ args.answer.err = Nil) =>
        LET kept == SelectSeq(args.answer.items,
                              LAMBDA d : d.namespace = args.namespace
                                         /\ SomeLabelMatches(d, args.requiredLabels))
        IN /\ result.val = [i \in 1..Len(kept) |-> kept[i].name]
           /\ Len(result.val) <= Len(args.answer.items)
           /\ (RequiredKeys(args.requiredLabels) = {} => result.val = <<>>)
           /\ (args.namespace \notin Namespaces => result.val = <<>>)

C12_Witness ==
    /\ Returned(ListOps)
    /\ args.answer.err = Nil
    /\ Len(args.answer.items) = 2
    /\ \A k \in LabelKeys : args.requiredLabels[k] = "v1"
    /\ \A i \in 1..2 : args.answer.items[i].labels = args.requiredLabels
    /\ result.val = <<"vm2", "vm1">>

====
